---- MODULE Spec2Model ----
(***************************************************************************)
(* Model of vcs-report-service: the uptime aggregation                     *)
(* (services.reportService.CalculateReportStatistic), the status lookup    *)
(* (services.reportService.GetEsStatus) and the periodic report worker     *)
(* (workers.reportkWorker).                                                *)
(*                                                                         *)
(* Time is counted in ticks of 1/TicksPerSec second, so that time.Time     *)
(* values keep a sub-second part and Time.Unix() / time.Unix(s, 0) are     *)
(* real conversions.  Uptime sums (float64 hours in the code) are kept on  *)
(* the same tick scale: hours = ticks / (3600 * TicksPerSec), a monotone   *)
(* rescaling under which min and + commute with the conversion.            *)
(***************************************************************************)
EXTENDS Integers, Sequences, FiniteSets, TLC

VARIABLES
    \* ---- CalculateReportStatistic: arguments and locals
    statusList,         \* map[string][]dto.EsStatus (window records)
    overlapStatusList,  \* map[string][]dto.EsStatus (boundary records)
    startTime,          \* startTime argument
    endTime,            \* endTime argument
    onCount,            \* local onCount
    offCount,           \* local offCount
    totalUptime,        \* local totalUptime (tick scale)
    isOnline,           \* local isOnline (0 or 1)
    ranged,             \* keys of statusList the range loop has already produced
    calcPc,             \* "loop" while ranging, "done" after return
    visit,              \* history: the last loop iteration (key and the locals before it)
    \* ---- reportkWorker and its collaborators
    mainPc,             \* the caller of Start/Stop: "init", "started", "waiting", "stopped"
    numWorkers,         \* the argument Start was called with
    wg,                 \* w.wg: the WaitGroup counter
    ctxDone,            \* w.ctx is cancelled
    panicked,           \* the process died of an unrecovered panic
    run,                \* per goroutine: position in run()/report(), ticker, report() locals,
                        \* and as history what the cycle did (log) and how the last one ended (prev)
    now,                \* time.Now()
    registry,           \* the "containers" key of redis: the list of known ids
    store,              \* the sms_container index: per id, its documents in counter order
    lastSent,           \* history: the arguments of the last SendEmail call
    emails,             \* history: number of SendEmail calls
    late,               \* history: collaborator calls made after Stop() returned
    ticked,             \* history: some ticker has fired
    stopEarly,          \* history: Stop() was called before the first tick fired
    \* ---- GetEsStatus: the locals of its result loop
    esIds,              \* ids: what the registry read of the call returned
    esResponses,        \* parsed.Responses: per sub-response its hits (_source values)
    esResults,          \* results
    esNext,             \* the position the range loop produces next (i + 1)
    esPc                \* "loop" while ranging, "done" after return, "panic"

calcVars == <<statusList, overlapStatusList, startTime, endTime, onCount, offCount,
              totalUptime, isOnline, ranged, calcPc, visit>>

workerVars == <<mainPc, numWorkers, wg, ctxDone, panicked, run, now, registry, store,
                lastSent, emails, late, ticked, stopEarly>>

esVars == <<esIds, esResponses, esResults, esNext, esPc>>

vars == <<calcVars, workerVars, esVars>>

----------------------------------------------------------------------------
\* Bounds of the model

TicksPerSec == 2
MaxStartOffset == 1
WindowLen == 2
MaxUptime == 2
MaxRecs == 2
MaxOverlap == 1
MaxTailRecs == 1
MaxTail == 2
MaxWorkers == 2
MaxNow == 4
MaxIds == 2
MaxResponses == 3
MaxHits == 2

----------------------------------------------------------------------------
\* Values

ContainerOn == "ON"
ContainerOff == "OFF"

Entities == {"container1", "container2"}

NoVisit == [id |-> "none", onCount |-> 0, offCount |-> 0, totalUptime |-> 0, isOnline |-> 0]

Min(a, b) == IF a <= b THEN a ELSE b
Max(a, b) == IF a >= b THEN a ELSE b

\* time.Time.Unix(): whole seconds since the epoch, the sub-second part dropped
Unix(t) == t \div TicksPerSec

\* time.Unix(sec, 0)
TimeUnix(sec) == sec * TicksPerSec

\* float64(status.Uptime)/3600 on the tick scale
UptimeHours(uptime) == uptime * TicksPerSec

\* t.Sub(u).Hours() on the tick scale
SubHours(t, u) == t - u

EsStatus(from, till) ==
    [Status : {ContainerOn, ContainerOff}, Uptime : 0..MaxUptime, LastUpdated : from..till]

\* records of one entity are ordered by observedAt, one record per instant
Ascending(s) == \A i \in 1..(Len(s) - 1) : s[i].LastUpdated < s[i + 1].LastUpdated

SeqsUpTo(S, n) == UNION {[1..k -> S] : k \in 0..n}

\* record lists the window query can hand over: inside [start, end), ascending
WindowLists(start, end) ==
    {s \in SeqsUpTo(EsStatus(start, end - 1), MaxRecs) : Ascending(s)}

\* record lists the boundary probe can hand over: at or after end
OverlapLists(end) == SeqsUpTo(EsStatus(end, end), MaxOverlap)

MapsTo(S) == UNION {[K -> S] : K \in SUBSET Entities}

----------------------------------------------------------------------------
\* CalculateReportStatistic

\* an inner loop body that adds the reported elapsed seconds without the cap
WalkStatusUncapped(acc, status, start) ==
    IF status.Status = ContainerOn
    THEN [acc EXCEPT !.totalUptime = @ + UptimeHours(status.Uptime), !.isOnline = 1]
    ELSE [acc EXCEPT !.previousTime =
                        TimeUnix(Max(Unix(@), Unix(status.LastUpdated))),
                     !.isOnline = 0]

\* one iteration of the inner loop over containerStatus (report.go 113-121)
WalkStatus(acc, status, start) ==
    IF status.Status = ContainerOn
    THEN [acc EXCEPT !.totalUptime =
                        @ + Min(SubHours(status.LastUpdated, start), UptimeHours(status.Uptime)),
                     !.isOnline = 1]
    ELSE [acc EXCEPT !.previousTime =
                        TimeUnix(Max(Unix(@), Unix(status.LastUpdated))),
                     !.isOnline = 0]

RECURSIVE WalkFrom(_, _, _, _)
WalkFrom(acc, containerStatus, i, start) ==
    IF i > Len(containerStatus) THEN acc
    ELSE WalkFrom(WalkStatus(acc, containerStatus[i], start), containerStatus, i + 1, start)

\* overlapStatusList[containerId]: a missing key reads as the nil slice
OverlapOf(overlap, containerId) ==
    IF containerId \in DOMAIN overlap THEN overlap[containerId] ELSE <<>>

\* an ON branch that adds the tail uptime and forgets to count the entity
OverlapOnUncounted(acc, first, end) ==
    [acc EXCEPT !.totalUptime =
                    @ + Min(SubHours(end, acc.previousTime), UptimeHours(first.Uptime))]

\* the ON branch of the boundary record (report.go 125-126)
OverlapOn(acc, first, end) ==
    [acc EXCEPT !.onCount = @ + 1,
                !.totalUptime =
                    @ + Min(SubHours(end, acc.previousTime), UptimeHours(first.Uptime))]

\* a boundary branch that leaves the decision to the isOnline flag of the walk
OverlapOffByFlag(acc, first, end) ==
    [acc EXCEPT !.onCount = @ + acc.isOnline,
                !.offCount = @ + (1 - acc.isOnline)]

\* the OFF branch of the boundary record (report.go 128)
OverlapOff(acc, first, end) ==
    [acc EXCEPT !.offCount = @ + 1]

\* a classification that looks at the last boundary record instead of the first
ClassifyByLast(acc, overlap, end) ==
    IF Len(overlap) > 0
    THEN IF overlap[Len(overlap)].Status = ContainerOn
         THEN OverlapOn(acc, overlap[Len(overlap)], end)
         ELSE OverlapOff(acc, overlap[Len(overlap)], end)
    ELSE [acc EXCEPT !.onCount = @ + acc.isOnline,
                     !.offCount = @ + (1 - acc.isOnline)]

\* report.go 123-134: the boundary record decides, else the isOnline flag
Classify(acc, overlap, end) ==
    IF Len(overlap) > 0
    THEN IF overlap[1].Status = ContainerOn
         THEN OverlapOn(acc, overlap[1], end)
         ELSE OverlapOff(acc, overlap[1], end)
    ELSE [acc EXCEPT !.onCount = @ + acc.isOnline,
                     !.offCount = @ + (1 - acc.isOnline)]

\* one iteration of the outer loop (report.go 111-135); acc carries the locals
\* declared before the loop (onCount, offCount, totalUptime, isOnline)
Iterate(acc, containerId, status, overlap, start, end) ==
    Classify(WalkFrom([acc EXCEPT !.previousTime = start], status[containerId], 1, start),
             OverlapOf(overlap, containerId), end)

\* report.go 106-109
Locals0(start) ==
    [onCount |-> 0, offCount |-> 0, totalUptime |-> 0, isOnline |-> 0, previousTime |-> start]

Locals == [onCount |-> onCount, offCount |-> offCount, totalUptime |-> totalUptime,
           isOnline |-> isOnline, previousTime |-> startTime]

\* the whole call with the map ranged in the order ord
RECURSIVE RunFrom(_, _, _, _, _, _, _)
RunFrom(acc, ord, i, status, overlap, start, end) ==
    IF i > Len(ord) THEN acc
    ELSE RunFrom(Iterate(acc, ord[i], status, overlap, start, end),
                 ord, i + 1, status, overlap, start, end)

CalculateReportStatistic(ord, status, overlap, start, end) ==
    LET r == RunFrom(Locals0(start), ord, 1, status, overlap, start, end)
    IN  <<r.onCount, r.offCount, r.totalUptime>>

\* the orders in which a map's keys can be ranged
Orders(K) == {o \in [1..Cardinality(K) -> K] : \A i, j \in DOMAIN o : o[i] = o[j] => i = j}

EmptyMap == [containerId \in {} |-> <<>>]

Goroutines == 1..Max(1, MaxWorkers)

\* the nil error
NoErr == "nil"

\* no report cycle has ended yet
NoOutcome == [op |-> "none", limit |-> 0, ok |-> TRUE]

\* a goroutine that was never launched, and the zero values of report()'s locals
IdleRun ==
    [pc |-> "none", tickC |-> FALSE, next |-> -1, startTime |-> 0, endTime |-> 0,
     probeTill |-> 0, ids |-> <<>>, statusList |-> EmptyMap, overlapStatusList |-> EmptyMap,
     result |-> <<0, 0, 0>>, log |-> <<>>, prev |-> NoOutcome]

\* how a report cycle ended, read from the last thing it did: the step that
\* failed ("registry", "store"), or "send" and whether SendEmail failed
Outcome(log) ==
    LET last == log[Len(log)]
    IN  [op |-> last.op, limit |-> last.query.limit, ok |-> (last.err = NoErr)]

NoSent == [sent |-> FALSE]

WorkerIdle ==
    /\ mainPc = "init"
    /\ numWorkers = 0
    /\ wg = 0
    /\ ctxDone = FALSE
    /\ panicked = FALSE
    /\ run = [g \in Goroutines |-> IdleRun]
    /\ now = 0
    /\ registry = <<>>
    /\ store = [e \in Entities |-> <<>>]
    /\ lastSent = NoSent
    /\ emails = 0
    /\ late = {}
    /\ ticked = FALSE
    /\ stopEarly = FALSE

CalcIdle ==
    /\ statusList = EmptyMap
    /\ overlapStatusList = EmptyMap
    /\ startTime = 0
    /\ endTime = 0
    /\ onCount = 0
    /\ offCount = 0
    /\ totalUptime = 0
    /\ isOnline = 0
    /\ ranged = {}
    /\ calcPc = "idle"
    /\ visit = NoVisit

\* no GetEsStatus result loop is being followed
EsIdle ==
    /\ esIds = <<>>
    /\ esResponses = <<>>
    /\ esResults = EmptyMap
    /\ esNext = 0
    /\ esPc = "idle"

CalcInit ==
    /\ WorkerIdle
    /\ EsIdle
    /\ \E off \in 0..MaxStartOffset :
          /\ startTime = TicksPerSec + off
          /\ endTime = TicksPerSec + off + WindowLen
    /\ statusList \in MapsTo(WindowLists(startTime, endTime))
    /\ overlapStatusList \in MapsTo(OverlapLists(endTime))
    /\ onCount = 0
    /\ offCount = 0
    /\ totalUptime = 0
    /\ isOnline = 0
    /\ ranged = {}
    /\ calcPc = "loop"
    /\ visit = NoVisit

\* the range loop produces one key it has not produced yet, in any order
CalcIterate(containerId) ==
    /\ calcPc = "loop"
    /\ containerId \in DOMAIN statusList \ ranged
    /\ LET r == Iterate(Locals, containerId, statusList, overlapStatusList, startTime, endTime)
       IN  /\ onCount' = r.onCount
           /\ offCount' = r.offCount
           /\ totalUptime' = r.totalUptime
           /\ isOnline' = r.isOnline
    /\ visit' = [id |-> containerId, onCount |-> onCount, offCount |-> offCount,
                 totalUptime |-> totalUptime, isOnline |-> isOnline]
    /\ ranged' = ranged \cup {containerId}
    /\ UNCHANGED <<statusList, overlapStatusList, startTime, endTime, calcPc>>
    /\ UNCHANGED <<workerVars, esVars>>

\* report.go 137
CalcReturn ==
    /\ calcPc = "loop"
    /\ ranged = DOMAIN statusList
    /\ calcPc' = "done"
    /\ UNCHANGED <<statusList, overlapStatusList, startTime, endTime, onCount, offCount,
                   totalUptime, isOnline, ranged, visit>>
    /\ UNCHANGED <<workerVars, esVars>>

CalcNext ==
    \/ \E containerId \in Entities : CalcIterate(containerId)
    \/ CalcReturn

SpecCalc == CalcInit /\ [][CalcNext]_vars

\* boundary record lists of any length up to MaxTail: the function takes a
\* slice per entity, whatever limit its caller asked the store for; elapsed
\* seconds are none or more than the window is long
TailLists(end) ==
    SeqsUpTo({rec \in EsStatus(end, end) : rec.Uptime \in {0, MaxUptime}}, MaxTail)

\* calls with longer boundary lists and shorter window lists
TailInit ==
    /\ WorkerIdle
    /\ EsIdle
    /\ \E off \in 0..MaxStartOffset :
          /\ startTime = TicksPerSec + off
          /\ endTime = TicksPerSec + off + WindowLen
    /\ statusList \in MapsTo({s \in WindowLists(startTime, endTime) : Len(s) <= MaxTailRecs})
    /\ overlapStatusList \in MapsTo(TailLists(endTime))
    /\ onCount = 0
    /\ offCount = 0
    /\ totalUptime = 0
    /\ isOnline = 0
    /\ ranged = {}
    /\ calcPc = "loop"
    /\ visit = NoVisit

SpecTail == TailInit /\ [][CalcNext]_vars

----------------------------------------------------------------------------
\* GetEsStatus

WindowLimit == 10000
ProbeLimit == 1

\* Time.Format(time.RFC3339): the text carries whole seconds only
FormatRFC3339(t) == Unix(t)

\* the range clause of one sub-query: gte/lt compare the document's last_updated
\* with the instants the two formatted texts denote (report.go 161-166)
InRange(doc, from, till) ==
    /\ TimeUnix(FormatRFC3339(from)) <= doc.LastUpdated
    /\ doc.LastUpdated < TimeUnix(FormatRFC3339(till))

Take(s, n) == SubSeq(s, 1, Min(Len(s), n))

\* the store's answer to the msearch body built in report.go 149-179: one
\* sub-response per id, its hits in counter order, at most size of them
Msearch(docs, ids, limit, from, till) ==
    [i \in 1..Len(ids) |->
        Take(SelectSeq(docs[ids[i]], LAMBDA doc : InRange(doc, from, till)), limit)]

\* report.go 215-217: results[containerId] = append(results[containerId], hit.Source)
\* for every hit; a sub-response without hits leaves the map as it is
Attribute(results, containerId, hits) ==
    IF hits = <<>> THEN results
    ELSE IF containerId \in DOMAIN results
         THEN [results EXCEPT ![containerId] = @ \o hits]
         ELSE [k \in DOMAIN results \cup {containerId} |->
                  IF k = containerId THEN hits ELSE results[k]]

\* report.go 212-218: hits of the i-th sub-response go under ids[i]
RECURSIVE Collect(_, _, _, _)
Collect(results, ids, responses, i) ==
    IF i > Len(responses) THEN results
    ELSE Collect(Attribute(results, ids[i], responses[i]), ids, responses, i + 1)

\* the index GetEsStatus returns when neither the registry nor the store fails
EsResults(docs, ids, limit, from, till) ==
    Collect(EmptyMap, ids, Msearch(docs, ids, limit, from, till), 1)

\* ---- the result loop of GetEsStatus followed step by step, over any id list
\* and any decoded answer

\* id lists the registry can return, an id twice included
IdLists == SeqsUpTo(Entities, MaxIds)

\* the _source values of the hits of one sub-response
HitLists == SeqsUpTo([Status : {ContainerOn, ContainerOff}, Uptime : {MaxUptime},
                      LastUpdated : 1..TicksPerSec], MaxHits)

\* report.go 207-212: the body is decoded into any number of sub-responses,
\* whatever the number of sub-queries sent; results := make(map)
EsInit ==
    /\ CalcIdle
    /\ WorkerIdle
    /\ esIds \in IdLists
    /\ esResponses \in SeqsUpTo(HitLists, MaxResponses)
    /\ esResults = EmptyMap
    /\ esNext = 1
    /\ esPc = "loop"

\* report.go 213-218, one iteration: containerId := ids[i] is an index
\* expression on a slice, which panics when i is out of range
EsCollect ==
    /\ esPc = "loop"
    /\ esNext <= Len(esResponses)
    /\ IF esNext <= Len(esIds)
       THEN /\ esResults' = Attribute(esResults, esIds[esNext], esResponses[esNext])
            /\ esNext' = esNext + 1
            /\ esPc' = "loop"
       ELSE /\ esPc' = "panic"
            /\ UNCHANGED <<esResults, esNext>>
    /\ UNCHANGED <<esIds, esResponses>>
    /\ UNCHANGED <<calcVars, workerVars>>

\* report.go 220: return results, nil
EsReturn ==
    /\ esPc = "loop"
    /\ esNext > Len(esResponses)
    /\ esPc' = "done"
    /\ UNCHANGED <<esIds, esResponses, esResults, esNext>>
    /\ UNCHANGED <<calcVars, workerVars>>

EsNext ==
    \/ EsCollect
    \/ EsReturn

SpecEs == EsInit /\ [][EsNext]_vars

----------------------------------------------------------------------------
\* reportkWorker

\* w.interval
Interval == WindowLen

ReportPcs == {"report", "redis1", "es1", "redis2", "es2", "calc", "send", "ret"}

\* a Start that launches one run loop per requested worker
LaunchedPerWorker(n) == n

\* Start launches the run loop with one go statement (workers/report.go 49)
Launched(n) == 1

\* documents the store may hold: early enough to fall into a first window or
\* just behind it
StoreLists == SeqsUpTo([Status : {ContainerOn, ContainerOff}, Uptime : {MaxUptime},
                        LastUpdated : 1..TicksPerSec], 1)

Registries == {<<>>, <<"container1">>, <<"container1", "container2">>}

\* error values: the registry's error and the three places where GetEsStatus
\* can fail after the registry read (report.go 184-210)
RedisErr == "redis: get failed"
DoErr == "msearch: do failed"
ReadErr == "msearch: read body failed"
DecodeErr == "msearch: decode failed"

\* what a call of esClient.Do and the decoding can come to: hits decoded, a
\* well-formed answer of the store that carries an error object and no
\* responses (decoded as zero sub-responses, no error), or one of the errors
EsOutcomes == {"ok", "rejected", DoErr, ReadErr, DecodeErr}

EsErr(out) == IF out \in {"ok", "rejected"} THEN NoErr ELSE out

\* a value of type map[string][]dto.EsStatus: the nil map, or a map
Nil == [nil |-> TRUE, map |-> EmptyMap]

Index(m) == [nil |-> FALSE, map |-> m]

\* dto.Asc
Asc == "asc"

\* one entry of the record of what a report cycle has done so far
Event(op, at, err, query, ids, index, result) ==
    [op |-> op, at |-> at, err |-> err, query |-> query, ids |-> ids, index |-> index,
     result |-> result]

NoQuery == [limit |-> 0, order |-> Asc, from |-> 0, till |-> 0]

Logged(r, ev) == [r EXCEPT !.log = Append(@, ev)]

\* report() is about to return to the run loop (report.go 81, 87, 94, 97)
Returning(r) == [r EXCEPT !.pc = "ret"]

\* a run loop that ends when report() has returned
ReturnedExit(r, outcome) ==
    [IdleRun EXCEPT !.pc = "exited", !.tickC = r.tickC, !.next = r.next, !.prev = outcome]

\* report() has returned to the run loop; its locals die with the call
Returned(r, outcome) ==
    [IdleRun EXCEPT !.pc = "select", !.tickC = r.tickC, !.next = r.next, !.prev = outcome]

\* a window query whose error is not looked at
WindowFailedGoOn(r) == [r EXCEPT !.pc = "redis2", !.statusList = EmptyMap]

\* report.go 79-82: if err != nil { log; return }
WindowFailed(r) == Returning(r)

\* a boundary probe whose error is not looked at
ProbeFailedGoOn(r) == [r EXCEPT !.pc = "calc", !.overlapStatusList = EmptyMap]

\* report.go 85-88: if err != nil { log; return }
ProbeFailed(r) == Returning(r)

QueryFailed(r) == IF r.pc \in {"redis1", "es1"} THEN WindowFailed(r) ELSE ProbeFailed(r)

\* a registry read whose error is not looked at: the store is queried anyway
AfterGetIgnoreErr(r, err, ids) ==
    [r EXCEPT !.ids = ids, !.pc = IF r.pc = "redis1" THEN "es1" ELSE "es2"]

\* services/report.go 143-147: ids, err := Get(...); if err != nil return nil, err
AfterGet(r, err, ids) ==
    IF err = NoErr
    THEN [r EXCEPT !.ids = ids, !.pc = IF r.pc = "redis1" THEN "es1" ELSE "es2"]
    ELSE QueryFailed(r)

\* a registry read that keeps the ids of the last delivered report
ReadIdsKept(reg) == IF lastSent.sent THEN lastSent.ids ELSE reg

\* the value Get(ctx, "containers") returns when it succeeds: what the registry
\* holds at the time of the call
ReadIds(reg) == reg

\* workers/report.go 78: GetEsStatus(w.ctx, 10000, startTime, endTime, dto.Asc)
WindowQuery(r) ==
    [limit |-> WindowLimit, order |-> Asc, from |-> r.startTime, till |-> r.endTime]

\* a probe that starts at the window's start
ProbeQueryFromStart(r) ==
    [limit |-> ProbeLimit, order |-> Asc, from |-> r.startTime, till |-> r.probeTill]

\* workers/report.go 84: GetEsStatus(w.ctx, 1, endTime, time.Now(), dto.Asc)
ProbeQuery(r) ==
    [limit |-> ProbeLimit, order |-> Asc, from |-> r.endTime, till |-> r.probeTill]

QueryOf(r) == IF r.pc \in {"redis1", "es1"} THEN WindowQuery(r) ELSE ProbeQuery(r)

\* a total that counts the entities that are on only
TotalCountOnOnly(on, off) == on

\* workers/report.go 92: onCount+offCount
TotalCount(on, off) == on + off

\* a SendEmail that is called again when it failed
AfterSendRetry(r, err) ==
    IF err = NoErr THEN Returning(r) ELSE r

\* workers/report.go 92-97: report() returns whether SendEmail failed or not
AfterSend(r, err) == Returning(r)

Init ==
    /\ CalcIdle
    /\ EsIdle
    /\ mainPc = "init"
    /\ numWorkers = 0
    /\ wg = 0
    /\ ctxDone = FALSE
    /\ panicked = FALSE
    /\ run = [g \in Goroutines |-> IdleRun]
    /\ now \in 0..(TicksPerSec - 1)
    /\ registry \in Registries
    /\ store \in [Entities -> StoreLists]
    /\ lastSent = NoSent
    /\ emails = 0
    /\ late = {}
    /\ ticked = FALSE
    /\ stopEarly = FALSE

\* Start(numWorkers): wg.Add(numWorkers); go w.run()
Start(n) ==
    /\ mainPc = "init"
    /\ ~panicked
    /\ numWorkers' = n
    /\ wg' = wg + n
    /\ run' = [g \in Goroutines |->
                 IF g <= Launched(n) THEN [run[g] EXCEPT !.pc = "start"] ELSE run[g]]
    /\ mainPc' = "started"
    /\ UNCHANGED <<ctxDone, panicked, now, registry, store, lastSent, emails, late, ticked, stopEarly>>
    /\ UNCHANGED <<calcVars, esVars>>

\* run(): defer wg.Done(); ticker := time.NewTicker(w.interval); defer ticker.Stop()
RunBegin(g) ==
    /\ ~panicked
    /\ run[g].pc = "start"
    /\ run' = [run EXCEPT ![g].pc = "select", ![g].next = now + Interval]
    /\ UNCHANGED <<mainPc, numWorkers, wg, ctxDone, panicked, now, registry, store,
                   lastSent, emails, late, ticked, stopEarly>>
    /\ UNCHANGED <<calcVars, esVars>>

\* the ticker sends on its channel of capacity 1 when an interval has passed;
\* a tick that finds the channel full is dropped
TickerFire(g) ==
    /\ ~panicked
    /\ run[g].next >= 0
    /\ now >= run[g].next
    /\ run' = [run EXCEPT ![g].tickC = TRUE, ![g].next = @ + Interval]
    /\ ticked' = TRUE
    /\ UNCHANGED <<mainPc, numWorkers, wg, ctxDone, panicked, now, registry, store,
                   lastSent, emails, late, stopEarly>>
    /\ UNCHANGED <<calcVars, esVars>>

\* time passes once the worker is started (Init chooses where in its second
\* the clock stands then); a due tick is sent before the clock moves on
Tock ==
    /\ ~panicked
    /\ mainPc # "init"
    /\ now < MaxNow
    /\ \A g \in Goroutines : run[g].next >= 0 => now < run[g].next
    /\ now' = now + 1
    /\ UNCHANGED <<mainPc, numWorkers, wg, ctxDone, panicked, run, registry, store,
                   lastSent, emails, late, ticked, stopEarly>>
    /\ UNCHANGED <<calcVars, esVars>>

\* another party rewrites the "containers" key of the registry: containers
\* are added
RegistryChange(ids) ==
    /\ ~panicked
    /\ Len(ids) > Len(registry)
    /\ registry' = ids
    /\ UNCHANGED <<mainPc, numWorkers, wg, ctxDone, panicked, run, now, store,
                   lastSent, emails, late, ticked, stopEarly>>
    /\ UNCHANGED <<calcVars, esVars>>

\* select, case <-w.ctx.Done(): return, running ticker.Stop() and wg.Done();
\* Done on a counter that is already 0 panics
RunSelectDone(g) ==
    /\ ~panicked
    /\ run[g].pc = "select"
    /\ ctxDone
    /\ run' = [run EXCEPT ![g].pc = "exited", ![g].next = -1, ![g].tickC = FALSE]
    /\ wg' = wg - 1
    /\ panicked' = (wg - 1 < 0)
    /\ UNCHANGED <<mainPc, numWorkers, ctxDone, now, registry, store, lastSent, emails,
                   late, ticked, stopEarly>>
    /\ UNCHANGED <<calcVars, esVars>>

\* select, case <-ticker.C: w.report().  With both cases ready select takes
\* either one.
RunSelectTick(g) ==
    /\ ~panicked
    /\ run[g].pc = "select"
    /\ run[g].tickC
    /\ run' = [run EXCEPT ![g].pc = "report", ![g].tickC = FALSE]
    /\ UNCHANGED <<mainPc, numWorkers, wg, ctxDone, panicked, now, registry, store,
                   lastSent, emails, late, ticked, stopEarly>>
    /\ UNCHANGED <<calcVars, esVars>>

\* report(): endTime := time.Now(); startTime := endTime.Add(-w.interval)
ReportBegin(g) ==
    /\ ~panicked
    /\ run[g].pc = "report"
    /\ run' = [run EXCEPT ![g] =
                 [@ EXCEPT !.pc = "redis1", !.endTime = now, !.startTime = now - Interval,
                           !.log = <<Event("begin", now, NoErr, NoQuery, <<>>, Nil, <<>>)>>]]
    /\ UNCHANGED <<mainPc, numWorkers, wg, ctxDone, panicked, now, registry, store,
                   lastSent, emails, late, ticked, stopEarly>>
    /\ UNCHANGED <<calcVars, esVars>>

\* GetEsStatus, s.redisClient.Get(ctx, "containers"): a cancelled context makes
\* the read fail; an error ends GetEsStatus with (nil, err) and with it report()
RedisGet(g, err) ==
    /\ ~panicked
    /\ run[g].pc \in {"redis1", "redis2"}
    /\ err = NoErr => ~ctxDone
    /\ LET r == run[g]
           ids == IF err = NoErr THEN ReadIds(registry) ELSE <<>>
           ev == Event("registry", 0, err, QueryOf(r), ids, Nil, <<>>)
       IN  run' = [run EXCEPT ![g] = AfterGet(Logged(r, ev), err, ids)]
    /\ UNCHANGED <<mainPc, numWorkers, wg, ctxDone, panicked, now, registry, store,
                   lastSent, emails, late, ticked, stopEarly>>
    /\ UNCHANGED <<calcVars, esVars>>

\* GetEsStatus, s.esClient.Do(ctx, req) and the decoding of the response: the
\* window query, then the probe up to the time.Now() read when it is called.
\* A request whose context is cancelled fails before it is sent to the store.
EsDo(g, out) ==
    /\ ~panicked
    /\ run[g].pc \in {"es1", "es2"}
    /\ EsErr(out) = NoErr => ~ctxDone
    /\ LET r == run[g]
           q == QueryOf(r)
           index == IF out = "ok"
                    THEN Index(EsResults(store, r.ids, q.limit, q.from, q.till))
                    ELSE IF out = "rejected" THEN Index(EmptyMap)
                    ELSE Nil
           l == Logged(r, Event("store", IF r.pc = "es1" THEN now ELSE 0, EsErr(out), q,
                                r.ids, index, <<>>))
       IN  run' = [run EXCEPT ![g] =
                     IF EsErr(out) # NoErr THEN QueryFailed(l)
                     ELSE IF r.pc = "es1"
                     THEN [l EXCEPT !.statusList = index.map, !.probeTill = now, !.pc = "redis2"]
                     ELSE [l EXCEPT !.overlapStatusList = index.map, !.pc = "calc"]]
    /\ late' = IF mainPc = "stopped" /\ ~ctxDone THEN late \cup {"store"} ELSE late
    /\ UNCHANGED <<mainPc, numWorkers, wg, ctxDone, panicked, now, registry, store,
                   lastSent, emails, ticked, stopEarly>>
    /\ UNCHANGED <<calcVars, esVars>>

\* report(): CalculateReportStatistic over the two indexes, the map ranged in
\* some order
Calculate(g) ==
    /\ ~panicked
    /\ run[g].pc = "calc"
    /\ \E ord \in Orders(DOMAIN run[g].statusList) :
          LET r == run[g]
              res == CalculateReportStatistic(ord, r.statusList, r.overlapStatusList,
                                              r.startTime, r.endTime)
              ev == Event("calc", 0, NoErr,
                          [NoQuery EXCEPT !.from = r.startTime, !.till = r.endTime],
                          <<>>, Nil, res)
          IN  run' = [run EXCEPT ![g] = [Logged(r, ev) EXCEPT !.result = res, !.pc = "send"]]
    /\ UNCHANGED <<mainPc, numWorkers, wg, ctxDone, panicked, now, registry, store,
                   lastSent, emails, late, ticked, stopEarly>>
    /\ UNCHANGED <<calcVars, esVars>>

\* report(): SendEmail(w.ctx, w.email, onCount+offCount, onCount, offCount,
\* totalUptime, startTime, endTime); SendEmail never looks at ctx
SendEmail(g, ok) ==
    /\ ~panicked
    /\ run[g].pc = "send"
    /\ LET r == run[g]
           total == TotalCount(r.result[1], r.result[2])
           err == IF ok THEN NoErr ELSE "send failed"
           ev == Event("send", 0, err,
                       [NoQuery EXCEPT !.from = r.startTime, !.till = r.endTime],
                       <<>>, Nil, <<total, r.result[1], r.result[2], r.result[3]>>)
       IN  /\ lastSent' = [sent |-> TRUE, ok |-> ok,
                           totalCount |-> total,
                           onCount |-> r.result[1], offCount |-> r.result[2],
                           totalUptime |-> r.result[3],
                           startTime |-> r.startTime, endTime |-> r.endTime,
                           ids |-> r.ids]
           /\ run' = [run EXCEPT ![g] = AfterSend(Logged(r, ev), err)]
    /\ emails' = emails + 1
    /\ late' = IF mainPc = "stopped" THEN late \cup {"email"} ELSE late
    /\ UNCHANGED <<mainPc, numWorkers, wg, ctxDone, panicked, now, registry, store, ticked, stopEarly>>
    /\ UNCHANGED <<calcVars, esVars>>

\* report() returns and the run loop goes back to its select
ReportReturn(g) ==
    /\ ~panicked
    /\ run[g].pc = "ret"
    /\ run' = [run EXCEPT ![g] = Returned(@, Outcome(@.log))]
    /\ UNCHANGED <<mainPc, numWorkers, wg, ctxDone, panicked, now, registry, store,
                   lastSent, emails, late, ticked, stopEarly>>
    /\ UNCHANGED <<calcVars, esVars>>

\* Stop(): w.cancel()
StopCancel ==
    /\ ~panicked
    /\ mainPc = "started"
    /\ ctxDone' = TRUE
    /\ mainPc' = "waiting"
    /\ stopEarly' = ~ticked
    /\ UNCHANGED <<numWorkers, wg, panicked, run, now, registry, store, lastSent, emails,
                   late, ticked>>
    /\ UNCHANGED <<calcVars, esVars>>

\* Stop(): w.wg.Wait() returns when the counter is 0
StopReturn ==
    /\ ~panicked
    /\ mainPc = "waiting"
    /\ wg = 0
    /\ mainPc' = "stopped"
    /\ UNCHANGED <<numWorkers, wg, ctxDone, panicked, run, now, registry, store, lastSent,
                   emails, late, ticked, stopEarly>>
    /\ UNCHANGED <<calcVars, esVars>>

\* the steps of the worker and its caller
WorkerStep ==
    \/ \E n \in 0..MaxWorkers : Start(n)
    \/ StopCancel
    \/ StopReturn
    \/ \E g \in Goroutines :
          \/ RunBegin(g)
          \/ TickerFire(g)
          \/ RunSelectDone(g)
          \/ RunSelectTick(g)
          \/ ReportBegin(g)
          \/ \E err \in {NoErr, RedisErr} : RedisGet(g, err)
          \/ \E out \in EsOutcomes : EsDo(g, out)
          \/ Calculate(g)
          \/ \E ok \in BOOLEAN : SendEmail(g, ok)
          \/ ReportReturn(g)

Next ==
    \/ WorkerStep
    \/ Tock
    \/ \E ids \in Registries : RegistryChange(ids)

Spec == Init /\ [][Next]_vars

\* one registry and one store content, for the properties that need fairness
InitLive ==
    /\ Init
    /\ registry = <<"container1">>
    /\ store = [e \in Entities |->
                  IF e = "container1"
                  THEN <<[Status |-> ContainerOn, Uptime |-> MaxUptime, LastUpdated |-> 1]>>
                  ELSE <<>>]

\* time passes, a due ticker sends its tick, a run loop that waits in select
\* with a tick pending takes a case, and a report() that is done returns
Fairness ==
    /\ WF_vars(Tock)
    /\ \A g \in Goroutines :
          /\ WF_vars(TickerFire(g))
          /\ WF_vars(RunSelectTick(g))
          /\ WF_vars(ReportReturn(g))

SpecLive == InitLive /\ [][Next]_vars /\ Fairness

----------------------------------------------------------------------------
\* Properties of CalculateReportStatistic (checked under SpecCalc)

Result == <<onCount, offCount, totalUptime>>

Visited == visit.id # "none"

VisitRecs == statusList[visit.id]

VisitOverlap == OverlapOf(overlapStatusList, visit.id)

\* the sum over the ON records of min(observedAt - start, elapsedSeconds)
RECURSIVE OnUptime(_, _, _)
OnUptime(recs, i, start) ==
    IF i > Len(recs) THEN 0
    ELSE (IF recs[i].Status = ContainerOn
          THEN Min(recs[i].LastUpdated - start, recs[i].Uptime * TicksPerSec)
          ELSE 0) + OnUptime(recs, i + 1, start)

\* the latest observedAt among the OFF records, or start when there is none
LastOff(recs, start) ==
    LET offs == {recs[i].LastUpdated : i \in {j \in DOMAIN recs : recs[j].Status = ContainerOff}}
    IN  IF offs = {} THEN start ELSE CHOOSE t \in offs : \A u \in offs : u <= t

Idle(containerId) ==
    /\ statusList[containerId] = <<>>
    /\ OverlapOf(overlapStatusList, containerId) = <<>>

\* C2: an entity that is a key of windowRecords with zero window records and no
\* boundary record is classified off and adds no uptime, whatever the other
\* entities hold and whatever the iteration order; and when every entity is
\* such an entity the result is (0, entityCount, 0).
C2_IdleEntityIsOff ==
    /\ (Visited /\ Idle(visit.id)) =>
          /\ onCount = visit.onCount
          /\ offCount = visit.offCount + 1
          /\ totalUptime = visit.totalUptime
    /\ (calcPc = "done" /\ \A e \in DOMAIN statusList : Idle(e)) =>
          Result = <<0, Cardinality(DOMAIN statusList), 0>>

\* C3: the result of a call does not depend on the order in which the entity
\* map is iterated: the run equals the run of the same call in every order.
C3_Deterministic ==
    calcPc = "done" =>
        \A ord \in Orders(DOMAIN statusList) :
            Result = CalculateReportStatistic(ord, statusList, overlapStatusList,
                                              startTime, endTime)

\* C4: on inputs with start <= observedAt < end, ascending records, elapsed
\* seconds >= 0 and boundary records at or after end, totalUptime is at most
\* (end - start) times the number of entities of windowRecords.
C4_UptimeBound ==
    calcPc = "done" =>
        totalUptime <= (endTime - startTime) * Cardinality(DOMAIN statusList)

\* C9: an entity whose first boundary record is OFF is counted in offCount and
\* not in onCount, and the boundary record adds no uptime: its iteration adds
\* the uptime of its ON window records and nothing else.
C9_OverlapOffIsOff ==
    (Visited /\ Len(VisitOverlap) > 0 /\ VisitOverlap[1].Status = ContainerOff) =>
        /\ onCount = visit.onCount
        /\ offCount = visit.offCount + 1
        /\ totalUptime = visit.totalUptime + OnUptime(VisitRecs, 1, startTime)

\* C9's case: the boundary record is OFF while the last window record is ON
C9_Witness ==
    /\ Visited
    /\ Len(VisitOverlap) > 0
    /\ VisitOverlap[1].Status = ContainerOff
    /\ Len(VisitRecs) > 0
    /\ VisitRecs[Len(VisitRecs)].Status = ContainerOn
    /\ offCount = visit.offCount + 1

\* C10: an entity whose first boundary record is ON with elapsedSeconds s is
\* counted in onCount and gets exactly min(end - lastOff, s) added on top of
\* its window-walk uptime, lastOff being the latest observedAt among its OFF
\* window records, or start when it has none.
C10_OverlapOnUptime ==
    (Visited /\ Len(VisitOverlap) > 0 /\ VisitOverlap[1].Status = ContainerOn) =>
        /\ onCount = visit.onCount + 1
        /\ offCount = visit.offCount
        /\ totalUptime = visit.totalUptime + OnUptime(VisitRecs, 1, startTime)
                         + Min(endTime - LastOff(VisitRecs, startTime),
                               VisitOverlap[1].Uptime * TicksPerSec)

\* C11: an entity whose only window record is ON at time t with elapsedSeconds
\* s and that has no boundary record adds exactly min(t - start, s) of uptime
\* and is counted in onCount.
C11_SingleOnRecord ==
    (Visited /\ Len(VisitRecs) = 1 /\ VisitRecs[1].Status = ContainerOn
             /\ VisitOverlap = <<>>) =>
        /\ onCount = visit.onCount + 1
        /\ offCount = visit.offCount
        /\ totalUptime = visit.totalUptime
                         + Min(VisitRecs[1].LastUpdated - startTime,
                               VisitRecs[1].Uptime * TicksPerSec)

\* C11's case: the single ON record reports more elapsed seconds than lie
\* between start and its observedAt, so the cap decides
C11_Witness ==
    /\ Visited
    /\ Len(VisitRecs) = 1
    /\ VisitRecs[1].Status = ContainerOn
    /\ VisitOverlap = <<>>
    /\ VisitRecs[1].LastUpdated - startTime < VisitRecs[1].Uptime * TicksPerSec
    /\ VisitRecs[1].LastUpdated > startTime
    /\ onCount = visit.onCount + 1

\* what the aggregation rule gives one entity: its ON window records capped at
\* observedAt - start, plus the tail from lastOff to end when its first
\* boundary record is ON
EntityUptime(containerId) ==
    LET recs == statusList[containerId]
        overlap == OverlapOf(overlapStatusList, containerId)
    IN  OnUptime(recs, 1, startTime)
        + (IF Len(overlap) > 0 /\ overlap[1].Status = ContainerOn
           THEN Min(endTime - LastOff(recs, startTime), overlap[1].Uptime * TicksPerSec)
           ELSE 0)

RECURSIVE SumUptime(_)
SumUptime(K) ==
    IF K = {} THEN 0
    ELSE LET containerId == CHOOSE k \in K : TRUE
         IN  EntityUptime(containerId) + SumUptime(K \ {containerId})

\* C12: the returned totalUptime is the sum over the entities of windowRecords
\* of their ON window records' capped uptime plus, for a first boundary record
\* ON, min(end - lastOff, its elapsedSeconds); OFF records add nothing.
C12_TotalUptimeSum ==
    calcPc = "done" => totalUptime = SumUptime(DOMAIN statusList)

----------------------------------------------------------------------------
\* Properties of the worker (checked under Spec)

InFlight == {g \in Goroutines : run[g].pc \in ReportPcs}

\* C1: a report cycle whose registry lists 2 entities and whose store holds no
\* record for either hands onCount=0, offCount=2, totalUptimeHours=0 and
\* totalCount=2 to the sink.
C1_EmptyStoreTwoEntities ==
    (lastSent.sent /\ Len(lastSent.ids) = 2 /\ \A e \in Entities : store[e] = <<>>) =>
        /\ lastSent.onCount = 0
        /\ lastSent.offCount = 2
        /\ lastSent.totalUptime = 0
        /\ lastSent.totalCount = 2

\* C5: Stop() returns only after the run loop goroutine has exited, and after
\* it has returned the worker makes no store query and no SendEmail call.
C5_StopJoins ==
    mainPc = "stopped" =>
        /\ \A g \in Goroutines : run[g].pc \in {"none", "exited"}
        /\ late = {}

\* C6: a Stop() called before the first tick has fired returns: while it waits
\* the worker can still take a step, and no SendEmail call occurs.
C6_StopBeforeFirstTick ==
    stopEarly =>
        /\ emails = 0
        /\ mainPc = "waiting" => ENABLED WorkerStep

\* C7: once the context is done, an iteration of the run loop exits and does
\* not call report(), also with a tick pending.
C7_NoCycleAfterCancel ==
    [][\A g \in Goroutines :
          (ctxDone /\ run[g].pc = "select") => run'[g].pc # "report"]_vars

\* C8: at most one report cycle is in flight in every reachable state.
C8_OneCycleInFlight == Cardinality(InFlight) <= 1

\* C8's case: a cycle is in flight after an earlier cycle went through SendEmail
C8_Witness == emails >= 1 /\ InFlight # {}

\* ---- what a cycle did, read from its log

Sends(log) == {i \in DOMAIN log : log[i].op = "send"}

StoreEvents(log) == SelectSeq(log, LAMBDA ev : ev.op = "store")

\* the events of a GetEsStatus call that ended it with an error
IsFailure(ev, limit) ==
    ev.op \in {"registry", "store"} /\ ev.query.limit = limit /\ ev.err # NoErr

\* a GetEsStatus call with this limit returned without error before position i
Succeeded(log, limit, i) ==
    \E j \in 1..(i - 1) :
        log[j].op = "store" /\ log[j].query.limit = limit /\ log[j].err = NoErr

EndedWith(g, op, limit, ok) == run[g].prev = [op |-> op, limit |-> limit, ok |-> ok]

\* C13: in a tick SendEmail is called at most once and only after both the
\* window query and the boundary probe of the same tick returned without
\* error; nothing follows a SendEmail in its tick, failed or not, nothing of a
\* tick is kept when the next one begins, and the window of a tick ends at the
\* time read when the tick began.
C13_SendOncePerTick ==
    \A g \in Goroutines :
        LET log == run[g].log
        IN  /\ Cardinality(Sends(log)) <= 1
            /\ \A i \in Sends(log) :
                  /\ Succeeded(log, WindowLimit, i)
                  /\ Succeeded(log, ProbeLimit, i)
                  /\ i = Len(log)
            /\ run[g].pc \in {"select", "report", "redis1"} =>
                  /\ run[g].statusList = EmptyMap
                  /\ run[g].overlapStatusList = EmptyMap
                  /\ run[g].result = <<0, 0, 0>>
            /\ run[g].pc \in {"select", "report"} => log = <<>>
            /\ run[g].pc \in ReportPcs \ {"report"} =>
                  /\ log[1].op = "begin"
                  /\ run[g].endTime = log[1].at
                  /\ run[g].startTime = log[1].at - Interval
                  /\ log[1].at <= now

\* C13's case: after a SendEmail that failed, the next tick works on a later
\* window
C13_Witness ==
    \E g \in Goroutines :
        /\ EndedWith(g, "send", 0, FALSE)
        /\ run[g].pc = "send"
        /\ lastSent.sent /\ ~lastSent.ok
        /\ run[g].endTime > lastSent.endTime

\* C14: when the window query of a tick fails, nothing follows in that tick:
\* no boundary probe, no CalculateReportStatistic, no SendEmail, no second
\* window query; report() returns.
C14_WindowFailureAbandons ==
    \A g \in Goroutines :
        LET log == run[g].log
        IN  \A i \in DOMAIN log :
                IsFailure(log[i], WindowLimit) =>
                    /\ i = Len(log)
                    /\ run[g].pc = "ret"
                    /\ \A j \in 1..(i - 1) : log[j].op \in {"begin", "registry"}

\* C14's case: the store call of the window query failed while the context was
\* not cancelled
C14_Witness ==
    \E g \in Goroutines :
        /\ run[g].pc = "ret"
        /\ ~ctxDone
        /\ run[g].log[Len(run[g].log)].op = "store"
        /\ IsFailure(run[g].log[Len(run[g].log)], WindowLimit)

ProbeFailure(g) ==
    /\ run[g].pc = "ret"
    /\ IsFailure(run[g].log[Len(run[g].log)], ProbeLimit)

\* the next tick of the loop's ticker lies within the modelled time
TickAhead(g) == run[g].tickC \/ (run[g].next >= 0 /\ run[g].next <= MaxNow)

\* C15: when the boundary probe of a tick fails nothing follows in that tick
\* (no report is delivered) and report() returns to the loop; and unless
\* cancellation is requested, the loop begins a new report cycle at a later
\* tick.
C15_ProbeFailureSkipsTick ==
    /\ [](\A g \in Goroutines :
            \A i \in DOMAIN run[g].log :
                IsFailure(run[g].log[i], ProbeLimit) =>
                    /\ i = Len(run[g].log)
                    /\ run[g].pc = "ret"
                    /\ Sends(run[g].log) = {})
    /\ \A g \in Goroutines :
          (ProbeFailure(g) /\ TickAhead(g)) ~> (ctxDone \/ run[g].pc = "report")

\* C15's case: a new cycle is under way after a tick whose boundary probe failed
C15_Witness ==
    \E g \in Goroutines :
        /\ EndedWith(g, "store", ProbeLimit, FALSE)
        /\ run[g].pc = "redis1"
        /\ ~ctxDone

C17_SendArguments ==
    \A g \in Goroutines :
        LET log == run[g].log
        IN  \A i \in Sends(log) :
                \E j \in 1..(i - 1) :
                    LET calc == log[j]
                        st == StoreEvents(log)
                    IN  /\ calc.op = "calc"
                        /\ log[i].result = <<calc.result[1] + calc.result[2], calc.result[1],
                                              calc.result[2], calc.result[3]>>
                        /\ lastSent.sent
                        /\ <<lastSent.totalCount, lastSent.onCount, lastSent.offCount,
                              lastSent.totalUptime>> = log[i].result
                        /\ <<lastSent.startTime, lastSent.endTime>>
                              = <<log[i].query.from, log[i].query.till>>
                        /\ Len(st) = 2
                        /\ \E ord \in Orders(DOMAIN st[1].index.map) :
                              calc.result = CalculateReportStatistic(ord, st[1].index.map,
                                                st[2].index.map, calc.query.from, calc.query.till)
                        /\ log[i].query.from = st[1].query.from
                        /\ log[i].query.till = st[1].query.till
                        /\ log[i].query.from = calc.query.from
                        /\ log[i].query.till = calc.query.till
                        /\ log[i].query.from = log[i].query.till - Interval

\* C17's case: a report with entities on and off was handed to SendEmail
C17_Witness ==
    \E g \in Goroutines :
        /\ run[g].pc = "ret"
        /\ Sends(run[g].log) # {}
        /\ lastSent.offCount > 0
        /\ lastSent.onCount > 0

\* C18: the store calls of a cycle are, in this order: the window query (limit
\* 10000, ascending, from startTime to endTime) and, only after it returned
\* without error, the boundary probe (limit 1, ascending, from endTime to the
\* time read when it is called, which is not before endTime); aggregation comes
\* after both, and there is no other store call.
C18_QueryOrder ==
    \A g \in Goroutines :
        LET log == run[g].log
            st == StoreEvents(log)
        IN  /\ Len(st) <= 2
            /\ Len(st) >= 1 =>
                  st[1].query = [limit |-> WindowLimit, order |-> Asc,
                                 from |-> log[1].at - Interval, till |-> log[1].at]
            /\ Len(st) = 2 =>
                  /\ st[1].err = NoErr
                  /\ st[2].query = [limit |-> ProbeLimit, order |-> Asc,
                                    from |-> log[1].at, till |-> st[1].at]
                  /\ st[1].at >= log[1].at
            /\ \A i \in DOMAIN log :
                  log[i].op = "calc" =>
                      /\ Succeeded(log, WindowLimit, i)
                      /\ Succeeded(log, ProbeLimit, i)
                      /\ \A j \in (i + 1)..Len(log) : log[j].op = "send"

\* C18's case: both store calls were made and the probe's upper bound is later
\* than the window's end
C18_Witness ==
    \E g \in Goroutines :
        /\ run[g].pc = "send"
        /\ Len(StoreEvents(run[g].log)) = 2
        /\ StoreEvents(run[g].log)[2].query.till > StoreEvents(run[g].log)[2].query.from

\* C19: a failed registry read ends GetEsStatus with the nil index and the
\* registry's error and no store call follows it; a failed store call or
\* decoding ends it with the nil index and an error.
C19_GetEsStatusErrors ==
    \A g \in Goroutines :
        LET log == run[g].log
        IN  \A i \in DOMAIN log :
                /\ (log[i].op = "registry" /\ log[i].err # NoErr) =>
                      /\ log[i].err = RedisErr
                      /\ log[i].index = Nil
                      /\ i = Len(log)
                      /\ run[g].pc = "ret"
                /\ (log[i].op = "store" /\ log[i].err # NoErr) =>
                      /\ log[i].err \in {DoErr, ReadErr, DecodeErr}
                      /\ log[i].index = Nil
                      /\ i = Len(log)

\* C19's case: the registry read failed while the context was not cancelled
C19_Witness ==
    \E g \in Goroutines :
        /\ run[g].pc = "ret"
        /\ ~ctxDone
        /\ run[g].log[Len(run[g].log)].op = "registry"
        /\ run[g].log[Len(run[g].log)].err = RedisErr

\* C20: every registry read of a cycle yields what the registry holds at that
\* time, a store call is made for the ids of the read just before it, and a
\* cycle begins with no ids kept from the one before.
C20_RegistryReadAnew ==
    [][\A g \in Goroutines :
          /\ (run[g].pc \in {"redis1", "redis2"} /\ run'[g].pc \in {"es1", "es2"}) =>
                run'[g].ids = registry
          /\ (run[g].pc \in {"es1", "es2"} /\ run'[g].pc # run[g].pc) =>
                /\ run'[g].log[Len(run'[g].log)].op = "store"
                /\ run'[g].log[Len(run'[g].log)].ids = run[g].ids
                /\ run[g].log[Len(run[g].log)].op = "registry"
                /\ run[g].log[Len(run[g].log)].ids = run[g].ids
          /\ (run[g].pc = "report" /\ run'[g].pc = "redis1") => run'[g].ids = <<>>]_vars

\* C20's case: the registry changed after a report was delivered and the next
\* tick's window query is about to be made for the new content
C20_Witness ==
    \E g \in Goroutines :
        /\ lastSent.sent
        /\ run[g].pc = "es1"
        /\ run[g].ids # lastSent.ids
        /\ run[g].ids = registry

----------------------------------------------------------------------------
\* Counting of the keys of windowRecords (checked under SpecCalc)

\* entities that have boundary records and are no key of windowRecords
BoundaryOnly == DOMAIN overlapStatusList \ DOMAIN statusList

\* C22: for every input, CalculateReportStatistic counts each key of
\* windowRecords exactly once: after every iteration onCount + offCount is the
\* number of keys ranged so far, at the return it is the number of keys of
\* windowRecords, neither count is negative, and an entity that appears only in
\* boundaryRecords is never ranged and so adds to neither count.
C22_EachKeyCountedOnce ==
    /\ onCount >= 0
    /\ offCount >= 0
    /\ ranged \cap BoundaryOnly = {}
    /\ calcPc \in {"loop", "done"} => onCount + offCount = Cardinality(ranged)
    /\ calcPc = "done" => onCount + offCount = Cardinality(DOMAIN statusList)

\* a finished call in which an entity with a boundary record is no key of
\* windowRecords
C22_Witness ==
    /\ calcPc = "done"
    /\ DOMAIN statusList # {}
    /\ onCount + offCount = 1
    /\ \E e \in BoundaryOnly : overlapStatusList[e] # <<>>

----------------------------------------------------------------------------
\* Boundary lists of more than one record (checked under SpecTail)

\* the locals the last iteration started from
VisitLocals ==
    [onCount |-> visit.onCount, offCount |-> visit.offCount,
     totalUptime |-> visit.totalUptime, isOnline |-> visit.isOnline,
     previousTime |-> startTime]

\* what may follow the first boundary record of an entity
Tails == SeqsUpTo(EsStatus(endTime, endTime), MaxTail - 1)

\* boundaryRecords with the records after the first of one entity replaced
WithTail(overlap, containerId, tail) ==
    [overlap EXCEPT ![containerId] = <<@[1]>> \o tail]

\* boundaryRecords with every list cut to its first record
Heads(overlap) == [k \in DOMAIN overlap |-> Take(overlap[k], 1)]

\* C21: when boundaryRecords holds more than one record for an entity, only
\* the first one decides the entity's classification and tail uptime: the
\* iteration over that entity ends with the same onCount, offCount, totalUptime
\* and isOnline when the records after the first are replaced by any others or
\* removed, and the returned triple is the one of the same call with every
\* boundary list cut to its first record.
C21_FirstBoundaryRecordDecides ==
    /\ (Visited /\ VisitOverlap # <<>>) =>
          \A tail \in Tails :
              LET r == Iterate(VisitLocals, visit.id, statusList,
                               WithTail(overlapStatusList, visit.id, tail),
                               startTime, endTime)
              IN  <<r.onCount, r.offCount, r.totalUptime, r.isOnline>>
                      = <<onCount, offCount, totalUptime, isOnline>>
    /\ calcPc = "done" =>
          \E ord \in Orders(DOMAIN statusList) :
              Result = CalculateReportStatistic(ord, statusList, Heads(overlapStatusList),
                                                startTime, endTime)

\* an entity with two boundary records that disagree: the first ON with
\* elapsed seconds, the second OFF; the entity was counted on
C21_Witness ==
    /\ Visited
    /\ Len(VisitOverlap) = 2
    /\ VisitOverlap[1].Status = ContainerOn
    /\ VisitOverlap[1].Uptime = MaxUptime
    /\ VisitOverlap[2].Status = ContainerOff
    /\ VisitOverlap[2].Uptime = 0
    /\ onCount = visit.onCount + 1
    /\ totalUptime > visit.totalUptime

----------------------------------------------------------------------------
\* Start with any worker count (checked under Spec)

\* the run loops Start has launched
LaunchedLoops == {g \in Goroutines : run[g].pc # "none"}

\* C23: for every numWorkers >= 1 passed to Start, exactly one run loop is
\* launched, and once that loop has exited a Stop() that waits can return.
C23_StopReturnsForEveryCount ==
    (mainPc # "init" /\ numWorkers >= 1) =>
        /\ Cardinality(LaunchedLoops) = 1
        /\ (mainPc = "waiting" /\ \A g \in LaunchedLoops : run[g].pc = "exited") =>
               ENABLED StopReturn

----------------------------------------------------------------------------
\* The id lists of the two queries of a cycle (checked under Spec)

\* C24: within one report cycle the window query and the boundary probe are
\* issued for the same list of entity ids, also when another party changes the
\* registry while the cycle is running.
C24_SameIdsInCycle ==
    \A g \in Goroutines :
        LET issued == StoreEvents(run[g].log)
        IN  Len(issued) = 2 => issued[1].ids = issued[2].ids

----------------------------------------------------------------------------
\* The result loop of GetEsStatus (checked under SpecEs)

\* the hits of the sub-responses from position i on that stand at a position
\* of containerId in the id list, in store order
RECURSIVE HitsAt(_, _)
HitsAt(containerId, i) ==
    IF i > Len(esResponses) \/ i > Len(esIds) THEN <<>>
    ELSE (IF esIds[i] = containerId THEN esResponses[i] ELSE <<>>) \o HitsAt(containerId, i + 1)

\* every key of the returned index is an id of the list and maps to the
\* non-empty sequence of the hits found at its positions, in store order; an
\* id without hits is no key
AttributedByPosition ==
    esPc = "done" =>
        /\ \A k \in DOMAIN esResults :
               /\ \E i \in DOMAIN esIds : esIds[i] = k
               /\ esResults[k] # <<>>
               /\ esResults[k] = HitsAt(k, 1)
        /\ \A i \in DOMAIN esIds :
               HitsAt(esIds[i], 1) # <<>> => esIds[i] \in DOMAIN esResults

\* C25: GetEsStatus attributes the hits of the i-th sub-response to the i-th id
\* of the list read in that call, every key of the returned index being one of
\* those ids with a non-empty record sequence in store order, and for any
\* number of sub-responses the store returns the loop reads no position
\* outside the id list.
C25_AttributionInBounds ==
    /\ esPc # "panic"
    /\ esPc \in {"loop", "done"} => esNext <= Len(esIds) + 1
    /\ AttributedByPosition


====
